---- MODULE Spec2Model ----
(***************************************************************************)
(* Model of src/bot.py: the monitoring loop main(), the filter stage       *)
(* (is_blacklisted, apply_filters), the two oracle adapters, and           *)
(* save_token_data with its record insert, blacklist append and trade.     *)
(* Every network call can answer 200, answer non-200, or be unreachable    *)
(* (requests raises, nothing in bot.py catches it, the process ends).      *)
(***************************************************************************)
EXTENDS Integers, Sequences, FiniteSets, TLC

VARIABLES market, pc, cycle, idx, token_data, COIN_BLACKLIST, DEV_BLACKLIST, tokens,
          orders, messages, main_verdict, is_fake_volume_flag, save_verdict,
          event, price_change, iter

vars == <<market, pc, cycle, idx, token_data, COIN_BLACKLIST, DEV_BLACKLIST, tokens,
          orders, messages, main_verdict, is_fake_volume_flag, save_verdict,
          event, price_change, iter>>

----------------------------------------------------------------------------
(* Bounds of the model. *)

\* number of passes of the while-True loop of main() that are explored
MaxCycles == 2
\* number of rows the tokens table may hold before the exploration stops
MaxRecords == 2

----------------------------------------------------------------------------
(* Configuration (config.json) and the constants written in the code. *)

MIN_LIQUIDITY == 500
MAX_PRICE_CHANGE == 50
MIN_VOLUME == 1000
PUMP_PRICE_THRESHOLD == 1000
RUG_LIQUIDITY_THRESHOLD == 1000

\* main(): token_addresses = ["0x...", "0x..."], the same literal twice
token_addresses == <<"0x...", "0x...">>

\* config["blacklist"]: the seed lists a run can start with
SeedLists == { [coins |-> <<>>, devs |-> <<>>],
               [coins |-> <<"BBB">>, devs |-> <<"0xB">>] }

None == "None"
NoPairs == "NoPairs"

----------------------------------------------------------------------------
(* What the external services can answer. *)

Symbols == {"AAA", "BBB"}
Addresses == {"0xA", "0xB"}
Prices == {1000, 2000}
Liquidities == {400, 500, 1000}
PriceChanges == {-60, 50}
DexUrl == <<"dexscreener", "com">>
Volumes == {999, 1000}
\* a URL is the sequence of its words; "binance" in url looks for one of them
Urls == { DexUrl, <<"www", "binance", "com">> }

\* token_data['pairs'][0] of a 200 answer of the market-data provider.  A run
\* is explored against one of three markets: "tokens", where the provider
\* answers any symbol and any base-token address with a price above the pump
\* threshold; "prices", where it answers one token with every price, every
\* liquidity that passes the filter and every URL; and "thresholds", where it
\* answers one token with every liquidity, price change and volume.
Markets == {"tokens", "prices", "thresholds"}

Listing(m) ==
    CASE m = "tokens" ->
           [symbol : Symbols, address : Addresses, priceUsd : {2000},
            liquidity : {400, 1000}, priceChange : {50}, volume : {1000},
            url : {DexUrl}]
      [] m = "prices" ->
           [symbol : {"AAA"}, address : {"0xA"}, priceUsd : Prices,
            liquidity : Liquidities \ {400}, priceChange : {50},
            volume : {1000}, url : Urls]
      [] m = "thresholds" ->
           [symbol : {"AAA"}, address : {"0xA"}, priceUsd : {2000},
            liquidity : Liquidities, priceChange : PriceChanges,
            volume : Volumes, url : {DexUrl}]

Pairs == UNION { Listing(m) : m \in Markets }

\* answers of the safety oracle: a 200 body (keys may be missing) or a non-200
SafetyResponses ==
    { [code |-> 200, body |-> b] :
        b \in { [status |-> s, is_bundled_supply |-> x] :
                  s \in {"Good", "Bad"}, x \in BOOLEAN }
              \cup { [is_bundled_supply |-> x] : x \in BOOLEAN }
              \cup { [status |-> s] : s \in {"Good", "Bad"} } }
    \cup { [code |-> 500] }

\* answers of the fraud oracle
FraudResponses ==
    { [code |-> 200, body |-> [is_fake_volume |-> x]] : x \in BOOLEAN }
    \cup { [code |-> 200, body |-> [other |-> TRUE]], [code |-> 500] }

----------------------------------------------------------------------------
(* Pure functions of bot.py. *)

In(x, list) == \E i \in 1..Len(list) : list[i] = x

\* dict.get(key, default)
Get(body, key, default) == IF key \in DOMAIN body THEN body[key] ELSE default

is_blacklisted_both(td, coins, devs) ==
    In(td.symbol, coins) /\ In(td.address, devs)

is_blacklisted_fetched_address(td, coins, devs) ==
    In(td.symbol, coins) \/ In(token_addresses[1], devs)

is_blacklisted_symbol_only(td, coins, devs) ==
    In(td.symbol, coins)

is_blacklisted(td, coins, devs) ==
    In(td.symbol, coins) \/ In(td.address, devs)

Abs(x) == IF x < 0 THEN -x ELSE x

apply_filters_strict(td) ==
    /\ td.liquidity > MIN_LIQUIDITY
    /\ Abs(td.priceChange) <= MAX_PRICE_CHANGE
    /\ td.volume >= MIN_VOLUME

apply_filters(td) ==
    /\ td.liquidity >= MIN_LIQUIDITY
    /\ Abs(td.priceChange) <= MAX_PRICE_CHANGE
    /\ td.volume >= MIN_VOLUME

is_fake_volume(response) ==
    IF response.code = 200
    THEN Get(response.body, "is_fake_volume", FALSE)
    ELSE FALSE

check_rugcheck_status(response) ==
    IF response.code = 200
    THEN [status |-> Get(response.body, "status", "Unknown"),
          bundled |-> Get(response.body, "is_bundled_supply", FALSE)]
    ELSE [status |-> "Unknown", bundled |-> FALSE]

detect_event_rug_first(td) ==
    IF td.liquidity < RUG_LIQUIDITY_THRESHOLD THEN "rug"
    ELSE IF td.priceUsd > PUMP_PRICE_THRESHOLD THEN "pump"
    ELSE IF In("binance", td.url) THEN "cex_listing"
    ELSE None

detect_event(td) ==
    IF td.priceUsd > PUMP_PRICE_THRESHOLD THEN "pump"
    ELSE IF td.liquidity < RUG_LIQUIDITY_THRESHOLD THEN "rug"
    ELSE IF In("binance", td.url) THEN "cex_listing"
    ELSE None

TokenRecord(td, ev, fake, verdict) ==
    [symbol |-> td.symbol, price |-> td.priceUsd, liquidity |-> td.liquidity,
     volume |-> td.volume, event |-> ev, dev_address |-> td.address,
     is_fake_volume |-> fake, rugcheck_status |-> verdict.status,
     is_bundled_supply |-> verdict.bundled]

trade_condition_ignores_fake(status, fake, ev) ==
    status = "Good" /\ ev = "pump"

trade_condition(status, fake, ev) ==
    status = "Good" /\ ~fake /\ ev = "pump"

----------------------------------------------------------------------------
(* Bookkeeping of the iteration in progress (not program state): what was  *)
(* fetched, how it left the filter stage, the oracle calls made, how the    *)
(* order and notification calls ended, the sizes of the stores when the    *)
(* iteration began, and the fetches and analysis passes of the current     *)
(* pass of the while loop.                                                 *)

NoVerdict == [status |-> "-", bundled |-> FALSE]

NoPair == [symbol |-> "-", address |-> "-", liquidity |-> 0, priceChange |-> 0,
           volume |-> 0]

IterStart(outcome, p) ==
    [outcome |-> outcome, symbol |-> p.symbol, address |-> p.address,
     thresholds |-> /\ p.liquidity >= MIN_LIQUIDITY
                    /\ p.priceChange <= MAX_PRICE_CHANGE
                    /\ -p.priceChange <= MAX_PRICE_CHANGE
                    /\ p.volume >= MIN_VOLUME,
     safety_calls |-> 0, fraud_calls |-> 0, gate_fake |-> "-",
     order |-> "-", notification |-> "-",
     cycle_fetches |-> iter.cycle_fetches + 1,
     cycle_analyses |-> iter.cycle_analyses,
     tokens0 |-> Len(tokens), coins0 |-> Len(COIN_BLACKLIST),
     devs0 |-> Len(DEV_BLACKLIST), orders0 |-> Len(orders),
     messages0 |-> Len(messages)]

Init ==
    /\ market \in Markets
    /\ pc = "fetch"
    /\ cycle = 1
    /\ idx = 1
    /\ token_data = None
    /\ \E seed \in SeedLists :
         /\ COIN_BLACKLIST = seed.coins
         /\ DEV_BLACKLIST = seed.devs
    /\ tokens = <<>>
    /\ orders = <<>>
    /\ messages = <<>>
    /\ main_verdict = NoVerdict
    /\ is_fake_volume_flag = FALSE
    /\ save_verdict = NoVerdict
    /\ event = None
    /\ price_change = <<>>
    /\ iter = [outcome |-> "idle", symbol |-> "-", address |-> "-",
               thresholds |-> FALSE,
               safety_calls |-> 0, fraud_calls |-> 0, gate_fake |-> "-",
               order |-> "-", notification |-> "-",
               cycle_fetches |-> 0, cycle_analyses |-> 0,
               tokens0 |-> 0, coins0 |-> Len(COIN_BLACKLIST),
               devs0 |-> Len(DEV_BLACKLIST), orders0 |-> 0,
               messages0 |-> 0]

NextToken_analyzes_each ==
    /\ token_data' = None
    /\ is_fake_volume_flag' = FALSE
    /\ save_verdict' = NoVerdict
    /\ event' = None
    /\ idx' = IF idx < Len(token_addresses) THEN idx + 1 ELSE 1
    /\ pc' = "analyze"
    /\ UNCHANGED cycle

\* the for loop moves to the next address, or to analyze_data after the last.
\* token_data and the locals of save_token_data are never read again before
\* they are assigned again; they are put back to their initial values.
NextToken ==
    /\ token_data' = None
    /\ is_fake_volume_flag' = FALSE
    /\ save_verdict' = NoVerdict
    /\ event' = None
    /\ IF idx < Len(token_addresses)
       THEN idx' = idx + 1 /\ pc' = "fetch"
       ELSE idx' = 1 /\ pc' = "analyze"
    /\ UNCHANGED cycle

\* an exception nothing catches: main() and the process end
Raise ==
    /\ pc' = "crashed"
    /\ UNCHANGED <<cycle, idx, token_data, is_fake_volume_flag, save_verdict,
                   event>>

Stores == <<market, price_change, COIN_BLACKLIST, DEV_BLACKLIST, tokens, orders, messages>>

main_gate_status_only(v) == v.status = "Good"

\* line 203: the condition under which main() goes on to the fraud check
main_gate(v) == v.status = "Good" /\ ~v.bundled

----------------------------------------------------------------------------
(* main(), lines 200-201: fetch_token_data and the condition of the if.    *)

Running == cycle <= MaxCycles /\ Len(tokens) < MaxRecords

\* requests.get raises: the provider is unreachable
FetchUnreachable ==
    /\ pc = "fetch" /\ Running
    /\ iter' = IterStart("unreachable", NoPair)
    /\ main_verdict' = NoVerdict
    /\ Raise
    /\ UNCHANGED Stores

\* non-200: fetch_token_data returns None, the if is false
FetchNon200 ==
    /\ pc = "fetch" /\ Running
    /\ iter' = IterStart("fetch_failed", NoPair)
    /\ main_verdict' = NoVerdict
    /\ NextToken
    /\ UNCHANGED Stores

\* 200 with an empty pair list: token_data['pairs'][0] raises IndexError
FetchNoPairs ==
    /\ pc = "fetch" /\ Running
    /\ iter' = IterStart("no_pairs", NoPair)
    /\ pc' = "crashed"
    /\ token_data' = NoPairs
    /\ main_verdict' = NoVerdict
    /\ UNCHANGED <<cycle, idx, is_fake_volume_flag, save_verdict, event,
                   Stores>>

\* 200 with a first pair p: is_blacklisted, then apply_filters
FetchPair(p) ==
    /\ pc = "fetch" /\ Running
    /\ main_verdict' = NoVerdict
    /\ IF is_blacklisted(p, COIN_BLACKLIST, DEV_BLACKLIST)
       THEN /\ iter' = IterStart("blacklisted", p)
            /\ NextToken
       ELSE IF ~apply_filters(p)
       THEN /\ iter' = IterStart("filtered", p)
            /\ NextToken
       ELSE /\ iter' = IterStart("admitted", p)
            /\ pc' = "main_rugcheck"
            /\ token_data' = p
            /\ UNCHANGED <<cycle, idx, is_fake_volume_flag, save_verdict,
                           event>>
    /\ UNCHANGED Stores

fetch_token_data ==
    \/ FetchUnreachable
    \/ FetchNon200
    \/ FetchNoPairs
    \/ \E p \in Listing(market) : FetchPair(p)

----------------------------------------------------------------------------
(* main(), lines 202-204: the gating oracle calls.                         *)

\* line 202-203: check_rugcheck_status(address), then the Good test
MainRugcheck(r) ==
    /\ pc = "main_rugcheck"
    /\ iter' = [iter EXCEPT !.safety_calls = @ + 1]
    /\ main_verdict' = check_rugcheck_status(r)
    /\ IF main_gate(main_verdict')
       THEN /\ pc' = "main_fake"
            /\ UNCHANGED <<cycle, idx, token_data, is_fake_volume_flag,
                           save_verdict, event>>
       ELSE NextToken
    /\ UNCHANGED Stores

MainRugcheckUnreachable ==
    /\ pc = "main_rugcheck"
    /\ iter' = [iter EXCEPT !.safety_calls = @ + 1]
    /\ Raise
    /\ UNCHANGED <<main_verdict, Stores>>

main_rugcheck ==
    \/ \E r \in SafetyResponses : MainRugcheck(r)
    \/ MainRugcheckUnreachable

\* line 204: if not is_fake_volume(address)
MainFake(r) ==
    /\ pc = "main_fake"
    /\ iter' = [iter EXCEPT !.fraud_calls = @ + 1,
                            !.gate_fake = IF is_fake_volume(r) THEN "fake"
                                          ELSE "genuine"]
    /\ IF ~is_fake_volume(r)
       THEN /\ pc' = "save_fake"
            /\ UNCHANGED <<cycle, idx, token_data, main_verdict, is_fake_volume_flag,
                           save_verdict, event>>
       ELSE NextToken
    /\ UNCHANGED <<main_verdict, Stores>>

MainFakeUnreachable ==
    /\ pc = "main_fake"
    /\ iter' = [iter EXCEPT !.fraud_calls = @ + 1]
    /\ Raise
    /\ UNCHANGED <<main_verdict, Stores>>

main_fake ==
    \/ \E r \in FraudResponses : MainFake(r)
    \/ MainFakeUnreachable

----------------------------------------------------------------------------
(* save_token_data, lines 127-169.                                         *)

\* line 140: is_fake_volume_flag = is_fake_volume(dev_address)
SaveFake(r) ==
    /\ pc = "save_fake"
    /\ iter' = [iter EXCEPT !.fraud_calls = @ + 1]
    /\ is_fake_volume_flag' = is_fake_volume(r)
    /\ pc' = "save_rugcheck"
    /\ UNCHANGED <<cycle, idx, token_data, main_verdict, save_verdict, event,
                   Stores>>

SaveFakeUnreachable ==
    /\ pc = "save_fake"
    /\ iter' = [iter EXCEPT !.fraud_calls = @ + 1]
    /\ Raise
    /\ UNCHANGED <<main_verdict, Stores>>

save_fake ==
    \/ \E r \in FraudResponses : SaveFake(r)
    \/ SaveFakeUnreachable

\* line 141: rugcheck_status, is_bundled_supply = check_rugcheck_status(..)
SaveRugcheck(r) ==
    /\ pc = "save_rugcheck"
    /\ iter' = [iter EXCEPT !.safety_calls = @ + 1]
    /\ save_verdict' = check_rugcheck_status(r)
    /\ pc' = "save_insert"
    /\ UNCHANGED <<cycle, idx, token_data, main_verdict, is_fake_volume_flag,
                   event, Stores>>

SaveRugcheckUnreachable ==
    /\ pc = "save_rugcheck"
    /\ iter' = [iter EXCEPT !.safety_calls = @ + 1]
    /\ Raise
    /\ UNCHANGED <<main_verdict, Stores>>

save_rugcheck ==
    \/ \E r \in SafetyResponses : SaveRugcheck(r)
    \/ SaveRugcheckUnreachable

db_insert_or_replace(table, row) ==
    IF table = <<>> THEN <<row>> ELSE [table EXCEPT ![Len(table)] = row]

\* lines 152-158: INSERT INTO tokens (...) VALUES (...), conn.commit(); the
\* table has no key, a row is added after the rows already there
db_insert(table, row) == Append(table, row)

save_insert_no_commit ==
    /\ pc = "save_insert"
    /\ event' = detect_event(token_data)
    /\ pc' = "save_blacklist"
    /\ UNCHANGED <<cycle, idx, token_data, main_verdict, is_fake_volume_flag,
                   save_verdict, market, price_change, COIN_BLACKLIST,
                   DEV_BLACKLIST, tokens, orders, messages, iter>>

\* lines 143-158: detect the event, INSERT INTO tokens, commit
save_insert ==
    /\ pc = "save_insert"
    /\ event' = detect_event(token_data)
    /\ tokens' = db_insert(tokens, TokenRecord(token_data, event',
                                               is_fake_volume_flag, save_verdict))
    /\ pc' = "save_blacklist"
    /\ UNCHANGED <<cycle, idx, token_data, main_verdict, is_fake_volume_flag,
                   save_verdict, market, price_change, COIN_BLACKLIST,
                   DEV_BLACKLIST, orders, messages, iter>>

list_assign(list, x) == <<x>>

\* list.append(x)
list_append(list, x) == Append(list, x)

\* lines 160-164: blacklist if bundled supply
save_blacklist ==
    /\ pc = "save_blacklist"
    /\ IF save_verdict.bundled
       THEN /\ COIN_BLACKLIST' = list_append(COIN_BLACKLIST, token_data.symbol)
            /\ DEV_BLACKLIST' = list_append(DEV_BLACKLIST, token_data.address)
       ELSE UNCHANGED <<COIN_BLACKLIST, DEV_BLACKLIST>>
    /\ pc' = "save_trade"
    /\ UNCHANGED <<cycle, idx, token_data, main_verdict, is_fake_volume_flag,
                   save_verdict, event, market, price_change, tokens, orders,
                   messages, iter>>

\* line 167: the trade condition
save_trade ==
    /\ pc = "save_trade"
    /\ IF trade_condition(save_verdict.status, is_fake_volume_flag, event)
       THEN /\ pc' = "save_order"
            /\ UNCHANGED <<cycle, idx, token_data, main_verdict, is_fake_volume_flag,
                           save_verdict, event>>
       ELSE NextToken
    /\ UNCHANGED <<main_verdict, Stores, iter>>

\* line 168: place_trojan_order(dev_address, side="buy", amount=0.01): the
\* request is posted; a non-200 answer is printed and None returned, which
\* save_token_data ignores; an unreachable service raises
PlaceOrder(code) ==
    /\ pc = "save_order"
    /\ orders' = Append(orders, [token_address |-> token_data.address,
                                 side |-> "buy"])
    /\ iter' = [iter EXCEPT !.order = IF code = 200 THEN "accepted"
                                      ELSE "rejected"]
    /\ pc' = "save_notify"
    /\ UNCHANGED <<cycle, idx, token_data, main_verdict, is_fake_volume_flag,
                   save_verdict, event, market, price_change, COIN_BLACKLIST,
                   DEV_BLACKLIST, tokens, messages>>

PlaceOrderUnreachable ==
    /\ pc = "save_order"
    /\ iter' = [iter EXCEPT !.order = "unreachable"]
    /\ Raise
    /\ UNCHANGED <<main_verdict, Stores>>

place_trojan_order ==
    \/ \E code \in {200, 500} : PlaceOrder(code)
    \/ PlaceOrderUnreachable

\* line 169: send_telegram_message(BUY symbol at price): the message is
\* posted; a non-200 answer is printed; an unreachable service raises
SendMessage(code) ==
    /\ pc = "save_notify"
    /\ messages' = Append(messages, [symbol |-> token_data.symbol,
                                     price |-> token_data.priceUsd])
    /\ iter' = [iter EXCEPT !.notification = IF code = 200 THEN "sent"
                                             ELSE "failed"]
    /\ NextToken
    /\ UNCHANGED <<market, price_change, main_verdict, COIN_BLACKLIST,
                   DEV_BLACKLIST, tokens, orders>>

SendMessageUnreachable ==
    /\ pc = "save_notify"
    /\ iter' = [iter EXCEPT !.notification = "unreachable"]
    /\ Raise
    /\ UNCHANGED <<main_verdict, Stores>>

send_telegram_message ==
    \/ \E code \in {200, 500} : SendMessage(code)
    \/ SendMessageUnreachable

----------------------------------------------------------------------------
(* main(), lines 206-207.                                                  *)

\* df['price'].pct_change(): the first row has no predecessor and gets NaN,
\* every other row (price - previous) / previous, kept as a fraction
NaN == [nan |-> TRUE, num |-> 0, den |-> 1]

pct_change(prices) ==
    [i \in 1..Len(prices) |->
       IF i = 1 THEN NaN
       ELSE IF prices[i - 1] = 0 /\ prices[i] = 0 THEN NaN
       ELSE [nan |-> FALSE, num |-> prices[i] - prices[i - 1],
             den |-> prices[i - 1]]]

HasNaN(column) == \E i \in 1..Len(column) : column[i].nan

\* analyze_data on an empty table: df.empty, nothing is done
AnalyzeEmpty ==
    /\ pc = "analyze"
    /\ tokens = <<>>
    /\ pc' = "sleep"
    /\ iter' = [iter EXCEPT !.cycle_analyses = @ + 1]
    /\ UNCHANGED <<cycle, idx, token_data, main_verdict, is_fake_volume_flag,
                   save_verdict, event, Stores>>

\* lines 174-179 on rows: read the table, df['price_change'] = pct_change()
AnalyzeRows ==
    /\ pc = "analyze"
    /\ tokens # <<>>
    /\ price_change' = pct_change([i \in 1..Len(tokens) |-> tokens[i].price])
    /\ pc' = "fit"
    /\ iter' = [iter EXCEPT !.cycle_analyses = @ + 1]
    /\ UNCHANGED <<market, cycle, idx, token_data, main_verdict,
                   is_fake_volume_flag, save_verdict, event, COIN_BLACKLIST,
                   DEV_BLACKLIST, tokens, orders, messages>>

\* lines 180-191: model.fit_predict(df[['price_change']]) gets the column as
\* it is.  The classifier is a library: given a NaN it either rejects the
\* input (ValueError, which nothing catches) or accepts it, depending on the
\* library; the anomalies are printed and plotted, then df is dropped.
FitPredict ==
    /\ pc = "fit"
    /\ \/ /\ pc' = "sleep"
          /\ price_change' = <<>>
       \/ /\ HasNaN(price_change)
          /\ pc' = "crashed"
          /\ UNCHANGED price_change
    /\ UNCHANGED <<market, cycle, idx, token_data, main_verdict,
                   is_fake_volume_flag, save_verdict, event, COIN_BLACKLIST,
                   DEV_BLACKLIST, tokens, orders, messages, iter>>

analyze_data ==
    \/ AnalyzeEmpty
    \/ AnalyzeRows
    \/ FitPredict

\* time.sleep(UPDATE_INTERVAL), then the next pass of while True
sleep ==
    /\ pc = "sleep"
    /\ cycle' = cycle + 1
    /\ pc' = "fetch"
    /\ iter' = [iter EXCEPT !.cycle_fetches = 0, !.cycle_analyses = 0]
    /\ UNCHANGED <<idx, token_data, main_verdict, is_fake_volume_flag,
                   save_verdict, event, Stores>>

Next ==
    \/ fetch_token_data
    \/ main_rugcheck
    \/ main_fake
    \/ save_fake
    \/ save_rugcheck
    \/ save_insert
    \/ save_blacklist
    \/ save_trade
    \/ place_trojan_order
    \/ send_telegram_message
    \/ analyze_data
    \/ sleep

Spec == Init /\ [][Next]_vars

----------------------------------------------------------------------------
(* Properties.                                                             *)

\* the iteration described by iter has run to its end
IterationDone ==
    pc \in {"fetch", "analyze", "fit", "sleep"} /\ iter.outcome # "idle"

\* a TokenRecord was persisted in the iteration described by iter
Saved == Len(tokens) > iter.tokens0

LastRecord == tokens[Len(tokens)]

NewOrders == Len(orders) - iter.orders0
NewMessages == Len(messages) - iter.messages0

Triggers(r) ==
    r.rugcheck_status = "Good" /\ r.is_fake_volume = FALSE /\ r.event = "pump"

C2_TradeIffGoodGenuinePump ==
    /\ NewOrders \in {0, 1}
    /\ NewMessages \in {0, 1}
    /\ (NewOrders = 1 \/ NewMessages = 1)
          => /\ Saved
             /\ Triggers(LastRecord)
             /\ NewOrders = 1
             /\ orders[Len(orders)] = [token_address |-> LastRecord.dev_address,
                                       side |-> "buy"]
    /\ NewMessages = 1
          => messages[Len(messages)] = [symbol |-> LastRecord.symbol,
                                        price |-> LastRecord.price]
    /\ (IterationDone /\ Saved)
          => IF Triggers(LastRecord)
             THEN NewOrders = 1 /\ NewMessages = 1
             ELSE NewOrders = 0 /\ NewMessages = 0

\* two evaluations returned: the first recorded a pump with fake volume and
\* issued nothing, the second recorded Good, genuine, pump and issued a pair
C2_Witness ==
    /\ IterationDone /\ Saved /\ Len(tokens) = 2
    /\ tokens[1].event = "pump" /\ tokens[1].is_fake_volume = TRUE
    /\ tokens[1].rugcheck_status = "Good"
    /\ Triggers(tokens[2])
    /\ Len(orders) = 1 /\ Len(messages) = 1

\* C3: fetching a snapshot whose symbol or base-token address is in a
\* blacklist at that time ends the iteration at once: no oracle call, no
\* record, no blacklist change, no order, no notification, and the rejection
\* is the blacklist's even when the thresholds pass.
C3_BlacklistedNeverEvaluated ==
    [][\A p \in Pairs :
         ( /\ pc = "fetch" /\ p.symbol = iter'.symbol
           /\ In(p.symbol, COIN_BLACKLIST) \/ In(p.address, DEV_BLACKLIST)
           /\ FetchPair(p) )
           => /\ pc' \in {"fetch", "analyze"}
              /\ iter'.outcome = "blacklisted"
              /\ iter'.safety_calls = 0 /\ iter'.fraud_calls = 0
              /\ tokens' = tokens
              /\ orders' = orders /\ messages' = messages
              /\ COIN_BLACKLIST' = COIN_BLACKLIST
              /\ DEV_BLACKLIST' = DEV_BLACKLIST]_vars

\* a snapshot passing the thresholds was rejected for an entry added in the
\* run (AAA and 0xA are in no seed list)
C3_Witness ==
    /\ iter.outcome = "blacklisted" /\ iter.thresholds
    /\ iter.symbol = "AAA" /\ iter.address = "0xA"
    /\ iter.safety_calls = 0 /\ iter.fraud_calls = 0

\* C4 as claimed: when a safety-oracle call of an iteration reported bundled
\* supply for an admitted snapshot, the iteration ends with a record
\* persisted and the symbol and address in the blacklists.
C4_BundledIsBlacklisted ==
    ( /\ IterationDone
      /\ iter.outcome = "admitted"
      /\ \/ main_verdict.bundled
         \/ Saved /\ LastRecord.is_bundled_supply )
      => /\ Saved
         /\ In(iter.symbol, COIN_BLACKLIST)
         /\ In(iter.address, DEV_BLACKLIST)

\* C5: no step removes an entry from either blacklist.
C5_BlacklistOnlyGrows ==
    [][ /\ \A x \in Symbols :
             In(x, COIN_BLACKLIST) => In(x, COIN_BLACKLIST')
        /\ \A x \in Addresses :
             In(x, DEV_BLACKLIST) => In(x, DEV_BLACKLIST')
        /\ Len(COIN_BLACKLIST') >= Len(COIN_BLACKLIST)
        /\ Len(DEV_BLACKLIST') >= Len(DEV_BLACKLIST) ]_vars

\* the seed entries are still there after an entry was added and a cycle ended
C5_Witness ==
    /\ COIN_BLACKLIST = <<"BBB", "AAA">>
    /\ DEV_BLACKLIST = <<"0xB", "0xA">>
    /\ cycle >= 2

NoDuplicates(list) ==
    \A i, j \in 1..Len(list) : list[i] = list[j] => i = j

\* C6: a bundled-supply detection in save_token_data appends exactly one
\* entry to each blacklist, an entry the list did not hold, and no other
\* step changes the lists: neither list ever holds an entry twice.
C6_OneNewEntryNoDuplicates ==
    [][ /\ (pc = "save_blacklist" /\ save_verdict.bundled)
            => /\ ~In(token_data.symbol, COIN_BLACKLIST)
               /\ ~In(token_data.address, DEV_BLACKLIST)
               /\ COIN_BLACKLIST' = Append(COIN_BLACKLIST, token_data.symbol)
               /\ DEV_BLACKLIST' = Append(DEV_BLACKLIST, token_data.address)
        /\ ~(pc = "save_blacklist" /\ save_verdict.bundled)
            => /\ COIN_BLACKLIST' = COIN_BLACKLIST
               /\ DEV_BLACKLIST' = DEV_BLACKLIST
        /\ NoDuplicates(COIN_BLACKLIST') /\ NoDuplicates(DEV_BLACKLIST') ]_vars

\* two detections in one run, starting from empty seed lists
C6_Witness ==
    /\ COIN_BLACKLIST = <<"AAA", "BBB">>
    /\ DEV_BLACKLIST = <<"0xA", "0xB">>

\* C7: once save_token_data has inserted, the new record's event is the
\* first match of: price > 1000 pump, liquidity < 1000 rug, URL with the
\* exchange marker cex_listing, else none; and every stored record with
\* price > 1000 is a pump, every other one with liquidity < 1000 a rug.
C7_EventIsFirstMatch ==
    /\ pc \in {"save_blacklist", "save_trade", "save_order", "save_notify"}
         => /\ Saved
            /\ LastRecord.price = token_data.priceUsd
            /\ LastRecord.liquidity = token_data.liquidity
            /\ LastRecord.event =
                 CASE token_data.priceUsd > 1000 -> "pump"
                   [] token_data.priceUsd <= 1000
                      /\ token_data.liquidity < 1000 -> "rug"
                   [] token_data.priceUsd <= 1000
                      /\ token_data.liquidity >= 1000
                      /\ \E i \in 1..Len(token_data.url) :
                            token_data.url[i] = "binance" -> "cex_listing"
                   [] OTHER -> None
    /\ \A i \in 1..Len(tokens) :
         /\ tokens[i].price > 1000 => tokens[i].event = "pump"
         /\ (tokens[i].price <= 1000 /\ tokens[i].liquidity < 1000)
              => tokens[i].event = "rug"
         /\ (tokens[i].price <= 1000 /\ tokens[i].liquidity >= 1000)
              => tokens[i].event \in {"cex_listing", None}

\* a record above the pump threshold and below the rug threshold stored as
\* pump, and a record that matches no rule stored with no event
C7_Witness ==
    /\ Len(tokens) = 2
    /\ tokens[1].price > 1000 /\ tokens[1].liquidity < 1000
    /\ tokens[1].event = "pump"
    /\ tokens[2].price <= 1000 /\ tokens[2].liquidity >= 1000
    /\ tokens[2].event = None

\* C8: a fetched snapshot goes on to the oracle calls exactly if it is not
\* blacklisted and liquidity >= MIN_LIQUIDITY and |price change| <=
\* MAX_PRICE_CHANGE and volume >= MIN_VOLUME; below MIN_LIQUIDITY it never
\* does; the step changes neither the blacklists nor the record store.
C8_AdmittedIffThresholds ==
    [][\A p \in Pairs :
         (pc = "fetch" /\ p.symbol = iter'.symbol /\ FetchPair(p))
           => /\ (pc' = "main_rugcheck")
                   <=> /\ ~In(p.symbol, COIN_BLACKLIST)
                       /\ ~In(p.address, DEV_BLACKLIST)
                       /\ p.liquidity >= MIN_LIQUIDITY
                       /\ p.priceChange <= MAX_PRICE_CHANGE
                       /\ p.priceChange >= -MAX_PRICE_CHANGE
                       /\ p.volume >= MIN_VOLUME
              /\ p.liquidity < MIN_LIQUIDITY => pc' # "main_rugcheck"
              /\ pc' = "main_rugcheck" => token_data' = p
              /\ COIN_BLACKLIST' = COIN_BLACKLIST
              /\ DEV_BLACKLIST' = DEV_BLACKLIST
              /\ tokens' = tokens]_vars

\* a snapshot with all three values equal to their thresholds was admitted
C8_Witness ==
    /\ pc = "main_rugcheck"
    /\ token_data.liquidity = MIN_LIQUIDITY
    /\ token_data.priceChange = MAX_PRICE_CHANGE
    /\ token_data.volume = MIN_VOLUME

\* C9 as claimed: after a failed fetch (non-200 or provider unreachable) the
\* iteration has made no oracle call, record, blacklist change or order, and
\* the loop goes on.
C9_FetchFailureSkipsToken ==
    iter.outcome \in {"fetch_failed", "unreachable"}
      => /\ iter.safety_calls = 0 /\ iter.fraud_calls = 0
         /\ Len(tokens) = iter.tokens0
         /\ Len(COIN_BLACKLIST) = iter.coins0
         /\ Len(DEV_BLACKLIST) = iter.devs0
         /\ NewOrders = 0
         /\ pc \in {"fetch", "analyze", "fit", "sleep"}

FraudFailed == [code |-> 500]
FraudSaysFalse == [code |-> 200, body |-> [is_fake_volume |-> FALSE]]
SafetyFailed == [code |-> 500]
SafetySaysUnknown ==
    [code |-> 200, body |-> [status |-> "Unknown", is_bundled_supply |-> FALSE]]

\* C10 as claimed: a failed oracle call (non-200 or unreachable) is a step of
\* the program exactly like the call answering the default: is_fake_volume
\* false for the fraud oracle, (Unknown, false) for the safety oracle.
C10_OracleFailureIsDefault ==
    [][ /\ (MainFake(FraudFailed) \/ MainFakeUnreachable)
            => MainFake(FraudSaysFalse)
        /\ (SaveFake(FraudFailed) \/ SaveFakeUnreachable)
            => SaveFake(FraudSaysFalse)
        /\ (MainRugcheck(SafetyFailed) \/ MainRugcheckUnreachable)
            => MainRugcheck(SafetySaysUnknown)
        /\ (SaveRugcheck(SafetyFailed) \/ SaveRugcheckUnreachable)
            => SaveRugcheck(SafetySaysUnknown) ]_vars


\* the exception that ended main() was raised inside analyze_data
AnalysisRaised == pc = "crashed" /\ price_change # <<>>

\* the order request of this iteration was not accepted
OrderFailed == iter.order \in {"rejected", "unreachable"}

\* the notification of this iteration was not delivered
NotificationFailed == iter.notification \in {"failed", "unreachable"}

\* C11 as claimed: when the trade condition holds, a failed order does not
\* prevent the notification, a failed notification leaves the order
\* submitted, and after either failure the record stays persisted and the
\* loop goes on (main() is not ended by the failure).
C11_OrderAndNotificationIndependent ==
    /\ OrderFailed =>
          /\ Saved
          /\ pc = "crashed" => AnalysisRaised
          /\ pc # "save_notify" => NewMessages = 1
    /\ NotificationFailed =>
          /\ Saved
          /\ NewOrders = 1
          /\ pc = "crashed" => AnalysisRaised

\* C12 as claimed: the classifier is never handed an undefined price change
\* (the first record's is excluded or zeroed first), and an analysis pass
\* over a store of at most one record does not raise.
C12_ClassifierNeverGetsUndefined ==
    /\ ~HasNaN(price_change)
    /\ Len(tokens) <= 1 => ~AnalysisRaised

\* C13 as claimed: in an iteration that persisted a record, the safety
\* oracle and the fraud oracle were each invoked exactly once, and the
\* verdicts stored in the record are the verdicts that gated the pipeline.
C13_OraclesInvokedOnce ==
    (iter.outcome = "admitted" /\ Saved) =>
        /\ iter.safety_calls = 1
        /\ iter.fraud_calls = 1
        /\ LastRecord.rugcheck_status = main_verdict.status
        /\ LastRecord.is_bundled_supply = main_verdict.bundled
        /\ LastRecord.is_fake_volume = (iter.gate_fake = "fake")

AllTokens == Len(token_addresses)

\* C14: cycles do not overlap: in a cycle the analysis pass runs at most
\* once, it starts only when every token of the cycle has been fetched and
\* no evaluation is in progress, no evaluation runs once it has started, and
\* the sleep that leads to the first fetch of the next cycle is reached only
\* with the analysis pass of this cycle done.
C14_AnalysisOnceAfterAllTokens ==
    /\ iter.cycle_analyses <= 1
    /\ iter.cycle_fetches <= AllTokens
    /\ pc \in {"analyze", "fit", "sleep"} => iter.cycle_fetches = AllTokens
    /\ iter.cycle_analyses = 1 =>
          /\ iter.cycle_fetches = AllTokens
          /\ pc \in {"fit", "sleep", "crashed"}
          /\ pc = "crashed" => AnalysisRaised
    /\ pc = "analyze" => iter.cycle_analyses = 0
    /\ pc \in {"fit", "sleep"} => iter.cycle_analyses = 1
    /\ (pc = "fetch" /\ iter.cycle_fetches = 0) => iter.cycle_analyses = 0

\* the second cycle has fetched both tokens, persisted a record and finished
\* its analysis pass
C14_Witness ==
    /\ cycle = 2
    /\ pc = "sleep"
    /\ iter.cycle_fetches = AllTokens
    /\ iter.cycle_analyses = 1
    /\ Saved

BlacklistGrown ==
    Len(COIN_BLACKLIST) > iter.coins0 \/ Len(DEV_BLACKLIST) > iter.devs0

\* C15: within an iteration the side effects come in the order record,
\* blacklist append, order, notification: the blacklists are as they were at
\* the fetch until the record is in the store, there is no order before a
\* record is persisted and (for a bundled record) the blacklists have grown,
\* and no notification before the order.
C15_RecordBlacklistOrderNotification ==
    /\ BlacklistGrown =>
          /\ Saved
          /\ LastRecord.is_bundled_supply
          /\ COIN_BLACKLIST[Len(COIN_BLACKLIST)] = LastRecord.symbol
          /\ DEV_BLACKLIST[Len(DEV_BLACKLIST)] = LastRecord.dev_address
    /\ pc = "save_blacklist" =>
          Saved /\ ~BlacklistGrown /\ NewOrders = 0 /\ NewMessages = 0
    /\ pc \in {"save_trade", "save_order"} =>
          Saved /\ NewOrders = 0 /\ NewMessages = 0
    /\ pc = "save_notify" => NewOrders = 1 /\ NewMessages = 0
    /\ NewOrders > 0 =>
          /\ Saved
          /\ LastRecord.is_bundled_supply => BlacklistGrown
    /\ NewMessages > 0 => NewOrders > 0

\* one iteration persisted a record, blacklisted its token, submitted the
\* order and sent the notification
C15_Witness ==
    /\ IterationDone
    /\ Saved
    /\ BlacklistGrown
    /\ NewOrders = 1
    /\ NewMessages = 1

IsPrefix(s, t) == Len(s) <= Len(t) /\ SubSeq(t, 1, Len(s)) = s

\* C16: the record store is append-only: in every step the earlier sequence
\* is a prefix of the later one, the persisting step adds exactly one record
\* at the end, and the steps of the analysis pass leave the store unchanged.
C16_StoreIsAppendOnly ==
    [][ /\ IsPrefix(tokens, tokens')
        /\ Len(tokens') <= Len(tokens) + 1
        /\ pc = "save_insert" => Len(tokens') = Len(tokens) + 1
        /\ pc \in {"analyze", "fit"} => tokens' = tokens ]_vars

\* an analysis pass has completed over a store of two records, the second
\* persisted after the first
C16_Witness ==
    /\ Len(tokens) = 2
    /\ pc = "sleep"
    /\ iter.cycle_analyses = 1

\* C17 as claimed: a 200 answer with an empty pair list is "no data": the
\* token is skipped without oracle call, record or order, and main() goes on.
C17_EmptyPairListIsNoData ==
    iter.outcome = "no_pairs" =>
        /\ pc # "crashed"
        /\ iter.safety_calls = 0
        /\ iter.fraud_calls = 0
        /\ ~Saved
        /\ NewOrders = 0

LastOrder == orders[Len(orders)]

C19_BlacklistGrowsOnlyOnChangedAnswer ==
    BlacklistGrown =>
        /\ iter.safety_calls = 2
        /\ main_verdict.status = "Good"
        /\ main_verdict.bundled = FALSE
        /\ LastRecord.is_bundled_supply = TRUE
        /\ LastRecord.rugcheck_status # main_verdict.status
             \/ LastRecord.is_bundled_supply # main_verdict.bundled

\* the blacklists have grown in an iteration whose gating verdict was Good
\* and not bundled and whose stored verdict is bundled
C19_Witness ==
    /\ BlacklistGrown
    /\ iter.safety_calls = 2
    /\ main_verdict.bundled = FALSE
    /\ LastRecord.is_bundled_supply

====
